---- MODULE Spec2Model ----
(***************************************************************************)
(* Message decision and dispatch engine of the WhatsApp auto-reply server  *)
(* (src/server.js, second revision, lines 380-995).                        *)
(*                                                                         *)
(* Every inbound message runs the async handler of client.on('message').   *)
(* A handler is suspended at each await (chat lookup, contact lookup,      *)
(* message.reply, the completion call, the contact-name lookup and the     *)
(* alert send); between two awaits its code runs atomically, and other     *)
(* handlers, timers and HTTP posts interleave only at the awaits.  Each    *)
(* action below is one such atomic piece.                                  *)
(***************************************************************************)
EXTENDS Integers, Sequences, FiniteSets, TLC

VARIABLES
    whatsappReady,        \* let whatsappReady
    autoReplies,          \* let autoReplies: sequence of [trigger, response]
    aiSettings,           \* let aiSettings: [enabled, apiKey, emergencyNumber]
    conversationHistory,  \* let conversationHistory: contact -> record | NoRecord
    businessContacts,     \* let businessContacts: contact -> record | NoRecord
    now,                  \* Date.now(), in milliseconds
    msgs,                 \* the handler of each inbound message: its position and locals
    ticks,                \* number of clock advances so far
    posts,                \* number of HTTP settings/rules posts so far
    everBusiness,         \* history: contacts whose record once had isBusiness = true
    peakConfidence,       \* history: highest detectionConfidence each contact ever had
    lastAIReplyTime,      \* history: time of each contact's latest successful AI reply (0: none)
    lastSweep,            \* history: time of the latest retention sweep (0: none)
    unhandledRejection,   \* history: a rejected await left the message handler uncaught
    scheduledMessages,    \* let scheduledMessages: the array of scheduled entries
    scans,                \* the runs of the dispatcher callback: position and locals
    dispatches,           \* number of times the dispatcher's interval has fired
    nextOid,              \* the next object identity to hand to a posted entry
    sentOk,               \* history: entries whose sendMessage resolved
    attempts,             \* history: number of sendMessage calls made for each entry
    sendFailed,           \* history: some scheduled sendMessage has rejected
    isInitializing,       \* let isInitializing
    reconnectAttempts,    \* let reconnectAttempts (the bounded-retry variant)
    reconnectTimers,      \* number of pending setTimeout callbacks that will call client.initialize
    initializing,         \* number of client.initialize() calls that have not settled
    qrCodeData,           \* let qrCodeData is not null
    qrRendering           \* number of qr handlers awaiting qrcode.toDataURL

vars == <<whatsappReady, autoReplies, aiSettings, conversationHistory,
          businessContacts, now, msgs, ticks, posts,
          everBusiness, peakConfidence, lastAIReplyTime, lastSweep,
          unhandledRejection,
          scheduledMessages, scans, dispatches, nextOid, sentOk, attempts, sendFailed,
          isInitializing, reconnectAttempts, reconnectTimers, initializing,
          qrCodeData, qrRendering>>

-----------------------------------------------------------------------------
(* Bounds of the model *)

MaxMsgs == 2
MaxInFlight == 2
MaxTicks == 1
MaxPosts == 1
MaxScans == 2
MaxDispatches == 3

(* Program constants *)

BusinessThreshold == 20
PatternWeight == 20
UrlBonus == 15
CodeBonus == 25
ConfidenceCap == 100
HistoryWindow == 6
DebounceMs == 3000
RetentionMs == 604800000
SweepIntervalMs == 86400000

(* The clock starts anywhere; one value stands for it.  Between two steps   *)
(* no time passes, or the clock advances by the debounce window or by 8     *)
(* days (past the retention horizon, a whole number of sweep periods).      *)
FetchTimeoutMs == 25000
DispatchIntervalMs == 30000

\* Date.now() when the process starts
StartTime == 8 * SweepIntervalMs
ClockSteps == {DebounceMs, 8 * SweepIntervalMs}

-----------------------------------------------------------------------------
(* Strings.  A text is a TLA+ string; a character is a string of length 1. *)

UpperLetters == "ABCDEFGHIJKLMNOPQRSTUVWXYZ"
LowerLetters == "abcdefghijklmnopqrstuvwxyz"
DigitChars == "0123456789"

CharAt(s, i) == SubSeq(s, i, i)

IsIn(c, alphabet) == \E i \in 1..Len(alphabet) : CharAt(alphabet, i) = c

IsDigit(c) == IsIn(c, DigitChars)

\* \w of a JavaScript regular expression
IsWordChar(c) == IsIn(c, UpperLetters) \/ IsIn(c, LowerLetters) \/ IsDigit(c) \/ c = "_"

\* \s, as far as the texts of the model go
IsSpace(c) == c = " "

LowerChar(c) ==
    IF IsIn(c, UpperLetters)
    THEN CharAt(LowerLetters, CHOOSE i \in 1..Len(UpperLetters) : CharAt(UpperLetters, i) = c)
    ELSE c

RECURSIVE ToLowerCase(_)
ToLowerCase(s) ==
    IF s = "" THEN ""
    ELSE LowerChar(CharAt(s, 1)) \o ToLowerCase(SubSeq(s, 2, Len(s)))

RECURSIVE TrimStart(_)
TrimStart(s) ==
    IF s # "" /\ IsSpace(CharAt(s, 1)) THEN TrimStart(SubSeq(s, 2, Len(s))) ELSE s

RECURSIVE TrimEnd(_)
TrimEnd(s) ==
    IF s # "" /\ IsSpace(CharAt(s, Len(s))) THEN TrimEnd(SubSeq(s, 1, Len(s) - 1)) ELSE s

\* String.prototype.trim
Trim(s) == TrimEnd(TrimStart(s))

\* String.prototype.includes
Includes(hay, needle) ==
    \E i \in 0..(Len(hay) - Len(needle)) : SubSeq(hay, i + 1, i + Len(needle)) = needle

AllDigits(s) == \A i \in 1..Len(s) : IsDigit(CharAt(s, i))

\* s.replace(/[^0-9]/g, '')
RECURSIVE DigitsOnly(_)
DigitsOnly(s) ==
    IF s = "" THEN ""
    ELSE (IF IsDigit(CharAt(s, 1)) THEN CharAt(s, 1) ELSE "")
         \o DigitsOnly(SubSeq(s, 2, Len(s)))

\* s.split('@')[0]
RECURSIVE BeforeAt(_)
BeforeAt(s) ==
    IF s = "" \/ CharAt(s, 1) = "@" THEN ""
    ELSE CharAt(s, 1) \o BeforeAt(SubSeq(s, 2, Len(s)))

-----------------------------------------------------------------------------
(* Regular expressions of the business detector.                           *)

\* \b at the position between characters p and p+1 of s (0 <= p <= Len(s))
WordBoundary(s, p) ==
    LET before == p >= 1 /\ IsWordChar(CharAt(s, p))
        after == p < Len(s) /\ IsWordChar(CharAt(s, p + 1))
    IN before # after

\* /\b(alt1|alt2|...)\b/i.test(s) where `Alt(u)` says that the lower-cased
\* substring u matches one of the alternatives
WordMatch(s, Alt(_)) ==
    \E i \in 1..Len(s) : \E j \in i..Len(s) :
        /\ WordBoundary(s, i - 1)
        /\ WordBoundary(s, j)
        /\ Alt(ToLowerCase(SubSeq(s, i, j)))

AutomatedAlt(u) ==
    u \in {"do not reply", "automated", "no-reply", "noreply", "this is an automated", "bot"}

\* order|#\d+|invoice|receipt|tracking|OTP|verification code|\d{4,6}|transaction|payment
TransactionalAlt(u) ==
    \/ u \in {"order", "invoice", "receipt", "tracking", "otp", "verification code",
              "transaction", "payment"}
    \/ Len(u) >= 2 /\ CharAt(u, 1) = "#" /\ AllDigits(SubSeq(u, 2, Len(u)))
    \/ Len(u) \in 4..6 /\ AllDigits(u)

DeliveryAlt(u) ==
    u \in {"delivered", "out for delivery", "dispatched", "courier", "shipment", "parcel"}

NotificationsAlt(u) ==
    u \in {"booking confirmed", "appointment", "reminder", "alert", "notification"}

MarketingAlt(u) ==
    u \in {"offer", "discount", "sale", "promo", "coupon", "limited time", "shop now"}

\* the number of pattern categories of businessPatterns that match
PatternCount(text) ==
    (IF WordMatch(text, AutomatedAlt) THEN 1 ELSE 0)
    + (IF WordMatch(text, TransactionalAlt) THEN 1 ELSE 0)
    + (IF WordMatch(text, DeliveryAlt) THEN 1 ELSE 0)
    + (IF WordMatch(text, NotificationsAlt) THEN 1 ELSE 0)
    + (IF WordMatch(text, MarketingAlt) THEN 1 ELSE 0)

\* /https?:\/\//.test(text)
HasUrl(text) == Includes(text, "http://") \/ Includes(text, "https://")

\* /^\d{4,8}$/.test(text.trim())
IsShortCode(text) == LET t == Trim(text) IN Len(t) \in 4..8 /\ AllDigits(t)

\* detectionScore of one inbound text
DetectionScore(text) ==
    PatternWeight * PatternCount(text)
    + (IF HasUrl(text) THEN UrlBonus ELSE 0)
    + (IF IsShortCode(text) THEN CodeBonus ELSE 0)

-----------------------------------------------------------------------------
(* Inputs of the model *)

\* message.from: two direct chats and a group chat
Contacts == {"c1@c.us", "c2@c.us"}
Groups == {"g1@g.us"}
Chats == Contacts \cup Groups

\* contacts the transport itself reports as business or enterprise accounts
TransportBusiness == {"c2@c.us"}

\* contact.pushname || contact.name
PushName(contact) == IF contact = "c1@c.us" THEN "Asha" ELSE "Shop"

Bodies ==
    { " Hi there ",
      "please help",
      "SOS",
      "sale 1234 http://a.b",
      "http://a.b" }

Rule(trigger, response) == [trigger |-> trigger, response |-> response]

\* rule lists that /auto-replies may post or that replies.json may hold
RuleLists ==
    { <<>>,
      <<Rule("re ", "Bye"), Rule("THERE", "Over here"), Rule("H", "Hey!")>> }

Settings(enabled, apiKey, emergencyNumber) ==
    [enabled |-> enabled, apiKey |-> apiKey, emergencyNumber |-> emergencyNumber]

\* bodies that /ai-settings may receive
SettingsPosts ==
    { Settings(FALSE, "", ""),
      Settings(TRUE, "sk-1", "+91 98"),
      Settings(TRUE, "***hidden***", "") }

\* what the completion service may answer: a text, or only white space
Completions == {"On it.", " "}

-----------------------------------------------------------------------------
(* Records *)

NoRecord == [absent |-> TRUE]

NoCall == [to |-> "", text |-> ""]

Call(to, text) == [to |-> to, text |-> text]

\* a handler that has not started
Idle ==
    [pc |-> "idle", contact |-> "", body |-> "", history |-> 0,
     aiReply |-> "", alert |-> "none", call |-> NoCall, late |-> FALSE,
     timeout |-> FALSE]

\* a handler that has ended
Done == [Idle EXCEPT !.pc = "done"]

Started(h) == h.pc \notin {"idle", "done"}

\* the businessContacts[contact] literal of the handler
NewBusinessInfo ==
    [isBusiness |-> FALSE, isVerified |-> FALSE, responseCount |-> 0,
     detectionConfidence |-> 0]

\* the conversationHistory[contact] literal of generateAIResponse; `id` is the
\* identity of the object (the message whose handler created it)
NewConversation(id, t) ==
    [id |-> id, messages |-> <<>>, hasIntroduced |-> FALSE, messageCount |-> 0,
     firstMessageTime |-> t, lastResponseTime |-> 0]

Min(a, b) == IF a <= b THEN a ELSE b

\* array.slice(-n)
LastN(seq, n) == IF Len(seq) > n THEN SubSeq(seq, Len(seq) - n + 1, Len(seq)) ELSE seq

-----------------------------------------------------------------------------
(* The handler's synchronous pieces *)

\* variant: the group check is missing
IsGroupChatNever(h) == FALSE

\* chat.isGroup
IsGroupChat(h) == h.contact \in Groups

\* variant: the transport never flags a contact
IsTransportBusinessNever(contact) == FALSE

\* chatContact.isBusiness || chatContact.isEnterprise
IsTransportBusiness(contact) == contact \in TransportBusiness

\* variant: every score is added and the flag follows the running total
UpdateBusinessRunningTotal(info, score) ==
    LET total == Min(ConfidenceCap, info.detectionConfidence + score)
    IN [info EXCEPT !.detectionConfidence = total,
                    !.isBusiness = info.isBusiness \/ total >= BusinessThreshold]

\* variant: every score is added, the flag is set by a score of 20 or more
UpdateBusinessAddsEveryScore(info, score) ==
    [info EXCEPT !.isBusiness = info.isBusiness \/ score >= BusinessThreshold,
                 !.detectionConfidence = Min(ConfidenceCap, info.detectionConfidence + score)]

\* "Update business status": if (detectionScore >= 20) { ... }
UpdateBusiness(info, score) ==
    IF score >= BusinessThreshold
    THEN [info EXCEPT !.isBusiness = TRUE,
                      !.detectionConfidence = Min(ConfidenceCap, info.detectionConfidence + score)]
    ELSE info

\* for (const rule of autoReplies) if (incomingLower.includes(rule.trigger.toLowerCase()))
\* the index of the rule the loop stops at, from index i on; 0 when it runs out
RECURSIVE MatchFrom(_, _, _)
MatchFrom(rules, incomingLower, i) ==
    IF i > Len(rules) THEN 0
    ELSE IF Includes(incomingLower, ToLowerCase(rules[i].trigger)) THEN i
    ELSE MatchFrom(rules, incomingLower, i + 1)

\* variant: the loop does not stop at the first match, the last match wins
RECURSIVE MatchBack(_, _, _)
MatchBack(rules, incomingLower, i) ==
    IF i = 0 THEN 0
    ELSE IF Includes(incomingLower, ToLowerCase(rules[i].trigger)) THEN i
    ELSE MatchBack(rules, incomingLower, i - 1)

LastMatch(rules, incomingText) == MatchBack(rules, ToLowerCase(incomingText), Len(rules))

FirstMatch(rules, incomingText) == MatchFrom(rules, ToLowerCase(incomingText), 1)

\* variant: the credential is not looked at
AIConfiguredEnabledOnly(s) == s.enabled

\* aiSettings.enabled && aiSettings.apiKey
AIConfigured(s) == s.enabled /\ s.apiKey # ""

\* variant: the check only starts with the third message of a contact
RateLimitedFromThird(history, t) ==
    t - history.lastResponseTime < DebounceMs /\ history.messageCount > 2

\* timeSinceLastResponse < 3000 && history.messageCount > 1
RateLimited(history, t) ==
    t - history.lastResponseTime < DebounceMs /\ history.messageCount > 1

\* history.messages.push({role: 'user', ...}) and the trim to the last 6
AppendUser(history) ==
    [history EXCEPT !.messages = LastN(Append(history.messages, "user"), HistoryWindow)]

\* history.messages.push({role: 'assistant', ...}); hasIntroduced; lastResponseTime
AppendAssistant(history, t) ==
    [history EXCEPT !.messages = Append(history.messages, "assistant"),
                    !.hasIntroduced = TRUE,
                    !.lastResponseTime = t]

EmergencyKeywords ==
    {"emergency", "urgent", "help", "critical", "immediately", "asap", "zaruri",
     "turant", "jaldi", "please help", "SOS", "crisis"}

\* emergencyKeywords.some(keyword => messageText.toLowerCase().includes(keyword))
IsEmergency(messageText) ==
    \E keyword \in EmergencyKeywords : Includes(ToLowerCase(messageText), keyword)

\* the emergencyMsg template
AlertMessage(contactName, contact, messageText) ==
    "EMERGENCY ALERT From: " \o contactName \o " Number: " \o contact
    \o " Message: \"" \o messageText \o "\" AI PA has responded."

\* aiSettings.emergencyNumber.replace(/[^0-9]/g, '') + '@c.us'
AlertRecipient(emergencyNumber) == DigitsOnly(emergencyNumber) \o "@c.us"

\* return aiReply; then in the handler: if (aiResponse) await message.reply(aiResponse)
ReturnReply(h) ==
    IF h.aiReply # ""
    THEN [h EXCEPT !.pc = "aiReply", !.call = Call(h.contact, h.aiReply)]
    ELSE Done

\* variant: the alert's failure is not caught inside generateAIResponse; it
\* reaches the handler's catch and the reply is never sent
AfterAlertRethrows(h, sent) ==
    IF sent THEN ReturnReply([h EXCEPT !.alert = "sent"]) ELSE Done

\* catch (error) { console.error('Failed to send emergency alert') } and on to return aiReply
AfterAlert(h, sent) ==
    ReturnReply([h EXCEPT !.alert = IF sent THEN "sent" ELSE "failed"])

-----------------------------------------------------------------------------
(* What the handler computes from a message body, tabulated once per body. *)

\* const incomingText = message.body.trim()
IncomingText == [b \in Bodies |-> Trim(b)]

\* detectionScore
ScoreOf == [b \in Bodies |-> DetectionScore(IncomingText[b])]

\* the rule the loop over autoReplies stops at (0: none)
RuleOf == [rules \in RuleLists |-> [b \in Bodies |-> FirstMatch(rules, IncomingText[b])]]

\* isEmergency
EmergencyOf == [b \in Bodies |-> IsEmergency(IncomingText[b])]

-----------------------------------------------------------------------------
(* Scheduled messages: the entries and the dispatcher's scan                *)

\* msg.datetime values: five minutes before the start, and a time that the
\* third firing of the interval is the first to reach
PastDue == StartTime - 10 * DispatchIntervalMs
DueLater == StartTime + 3 * DispatchIntervalMs

\* { datetime, status } as posted; phone and message play no part in the scan
Entry(datetime, status) == [datetime |-> datetime, status |-> status]

\* bodies of app.post('/scheduled-messages'), and contents of scheduled.json
Queues ==
    { <<>>,
      <<Entry(PastDue, "pending"), Entry(DueLater, "pending")>>,
      <<Entry(PastDue, "pending"), Entry(PastDue, "pending"), Entry(PastDue, "pending")>>,
      <<Entry(PastDue, "failed"), Entry(PastDue, "pending")>> }

\* the longest of Queues has three entries; one array at the start and one per post
MaxOid == 3 * (MaxPosts + 1)

\* the objects of a parsed array: entry k is the object first + k - 1
Objects(queue, first) ==
    [k \in 1..Len(queue) |->
        [oid |-> first + k - 1, datetime |-> queue[k].datetime, status |-> queue[k].status]]

Oids(queue) == {queue[k].oid : k \in 1..Len(queue)}

\* scheduledTime <= now && msg.status === 'pending'
IsDue(msg, start) == msg.datetime <= start /\ msg.status = "pending"

\* the entries a run starting at `start` finds due
DueOids(queue, start) == {queue[k].oid : k \in {j \in 1..Len(queue) : IsDue(queue[j], start)}}

\* scheduledMessages.splice(i, 1), i counted from 1: nothing when i is past the end
Splice(queue, i) ==
    IF i > Len(queue) THEN queue
    ELSE SubSeq(queue, 1, i - 1) \o SubSeq(queue, i + 1, Len(queue))

\* msg.status = 'failed' on the object msg: seen in the array if msg is still in it
MarkFailed(queue, oid) ==
    [k \in 1..Len(queue) |->
        IF queue[k].oid = oid THEN [queue[k] EXCEPT !.status = "failed"] ELSE queue[k]]

\* a run of the callback that is not in progress
\* (atStart, due and examined are history: the entries in the array when the run
\* began, those of them then due, and the entries the loop has looked at)
NoScan ==
    [pc |-> "idle", i |-> 0, msg |-> 0, start |-> 0,
     atStart |-> {}, due |-> {}, examined |-> <<>>]

Scanning(scan) == scan.pc = "send"

\* for (let i = ...; i >= 1; i--) from index i to the next await or to the end;
\* scheduledMessages[i] past the end is undefined and msg.datetime throws
RECURSIVE ScanFrom(_, _, _)
ScanFrom(queue, scan, i) ==
    IF i < 1 THEN [scan EXCEPT !.pc = "done", !.i = 0, !.msg = 0]
    ELSE IF i > Len(queue) THEN [scan EXCEPT !.pc = "crashed", !.i = i, !.msg = 0]
    ELSE LET seen == [scan EXCEPT !.examined = Append(scan.examined, queue[i].oid)]
         IN IF IsDue(queue[i], scan.start)
            THEN [seen EXCEPT !.pc = "send", !.i = i, !.msg = queue[i].oid]
            ELSE ScanFrom(queue, seen, i - 1)

\* variant: the callback does not look at whatsappReady
ConnectedAlways(ready) == TRUE

\* if (!whatsappReady) return
Connected(ready) == ready

-----------------------------------------------------------------------------
(* Initial state: the module-level declarations.  replies.json and         *)
(* ai_settings.json may hold what an earlier run saved.                     *)

\* nothing scheduled and the dispatcher's callback not running
DispatcherAtRest ==
    /\ scheduledMessages = <<>>
    /\ scans = [s \in 1..MaxScans |-> NoScan]
    /\ dispatches = 0
    /\ nextOid = 1
    /\ sentOk = {}
    /\ attempts = [o \in 1..MaxOid |-> 0]
    /\ sendFailed = FALSE

sched == <<scheduledMessages, scans, dispatches, nextOid, sentOk, attempts, sendFailed>>

\* the session state after the module is loaded: client.initialize() was
\* called with isInitializing set
SessionAtStart ==
    /\ isInitializing = TRUE
    /\ reconnectAttempts = 0
    /\ reconnectTimers = 0
    /\ initializing = 1
    /\ qrCodeData = FALSE
    /\ qrRendering = 0

session == <<isInitializing, reconnectAttempts, reconnectTimers, initializing,
             qrCodeData, qrRendering>>

Init ==
    /\ whatsappReady = FALSE
    /\ autoReplies \in RuleLists
    /\ aiSettings \in {Settings(FALSE, "", ""), Settings(TRUE, "sk-1", "+91 98")}
    /\ conversationHistory = [c \in Chats |-> NoRecord]
    /\ businessContacts = [c \in Chats |-> NoRecord]
    /\ now = StartTime
    /\ msgs = [m \in 1..MaxMsgs |-> Idle]
    /\ ticks = 0
    /\ posts = 0
    /\ everBusiness = {}
    /\ peakConfidence = [c \in Chats |-> 0]
    /\ lastAIReplyTime = [c \in Chats |-> 0]
    /\ lastSweep = 0
    /\ unhandledRejection = FALSE
    /\ DispatcherAtRest
    /\ SessionAtStart

config == <<whatsappReady, autoReplies, aiSettings, session>>
stores == <<conversationHistory, businessContacts>>
clock == <<now, ticks>>
history == <<everBusiness, peakConfidence, lastAIReplyTime, lastSweep, unhandledRejection>>
observed == <<everBusiness, peakConfidence, lastAIReplyTime, lastSweep>>

\* the history variables follow the stores
Record(conv, biz, replied) ==
    /\ conversationHistory' = conv
    /\ businessContacts' = biz
    /\ everBusiness' = everBusiness
           \cup {c \in Chats : biz[c] # NoRecord /\ biz[c].isBusiness}
    /\ peakConfidence' =
           [c \in Chats |->
               IF biz[c] # NoRecord /\ biz[c].detectionConfidence > peakConfidence[c]
               THEN biz[c].detectionConfidence ELSE peakConfidence[c]]
    /\ lastAIReplyTime' =
           [c \in Chats |-> IF c \in replied THEN now ELSE lastAIReplyTime[c]]

-----------------------------------------------------------------------------
(* Environment *)

\* client.on('ready')
OnReady ==
    /\ whatsappReady' = TRUE
    /\ isInitializing' = FALSE
    /\ qrCodeData' = FALSE
    /\ UNCHANGED <<autoReplies, aiSettings, stores, clock, msgs, posts, history, sched,
                   reconnectAttempts, reconnectTimers, initializing, qrRendering>>

\* time passes
Tick ==
    /\ ticks < MaxTicks
    /\ \E d \in ClockSteps :
          \* controller.abort() ends a completion call after FetchTimeoutMs
          /\ d > FetchTimeoutMs => \A m \in 1..MaxMsgs : ~msgs[m].timeout
          /\ now' = now + d
    /\ ticks' = ticks + 1
    /\ UNCHANGED <<config, stores, msgs, posts, history, sched>>

\* app.post('/auto-replies')
PostAutoReplies ==
    /\ posts < MaxPosts
    /\ \E rules \in RuleLists : autoReplies' = rules
    /\ posts' = posts + 1
    /\ UNCHANGED <<whatsappReady, aiSettings, stores, clock, msgs, history, sched,
                   session>>

\* variant: only the mask stands for the stored key, an empty key replaces it
MergeSettingsEmptyClears(stored, newSettings) ==
    IF newSettings.apiKey = "***hidden***"
    THEN [newSettings EXCEPT !.apiKey = stored.apiKey]
    ELSE newSettings

\* if (!newSettings.apiKey || newSettings.apiKey === '***hidden***')
\*     newSettings.apiKey = aiSettings.apiKey
MergeSettings(stored, newSettings) ==
    IF newSettings.apiKey = "" \/ newSettings.apiKey = "***hidden***"
    THEN [newSettings EXCEPT !.apiKey = stored.apiKey]
    ELSE newSettings

\* app.get('/ai-settings'): apiKey: aiSettings.apiKey ? '***hidden***' : ''
ReadSettings(stored) ==
    [stored EXCEPT !.apiKey = IF stored.apiKey # "" THEN "***hidden***" ELSE ""]

\* app.post('/ai-settings'): an empty or masked key keeps the stored key
PostAiSettings ==
    /\ posts < MaxPosts
    /\ \E newSettings \in SettingsPosts \cup {ReadSettings(aiSettings)} :
          aiSettings' = MergeSettings(aiSettings, newSettings)
    /\ posts' = posts + 1
    /\ UNCHANGED <<whatsappReady, autoReplies, stores, clock, msgs, history, sched,
                   session>>

\* variant: a record is removed when its latest reply, not its first message,
\* is older than the retention period
SweepConversationsIdle(conv, t) ==
    [c \in Chats |->
        IF conv[c] # NoRecord /\ conv[c].lastResponseTime < t - RetentionMs
        THEN NoRecord ELSE conv[c]]

\* the retention sweep: setInterval(..., 24 h)
SweepConversations(conv, t) ==
    [c \in Chats |->
        IF conv[c] # NoRecord /\ conv[c].firstMessageTime < t - RetentionMs
        THEN NoRecord ELSE conv[c]]

SweepBusiness(biz, conv) ==
    [c \in Chats |-> IF conv[c] = NoRecord THEN NoRecord ELSE biz[c]]

RetentionSweep ==
    /\ now - StartTime >= SweepIntervalMs
    /\ LET conv == SweepConversations(conversationHistory, now)
       IN Record(conv, SweepBusiness(businessContacts, conv), {})
    /\ lastSweep' = now
    /\ UNCHANGED <<config, clock, msgs, posts, unhandledRejection, sched>>

-----------------------------------------------------------------------------
(* The message handler: client.on('message') and generateAIResponse *)

\* a message event while disconnected, or one of the account's own messages
ReceiveIgnored ==
    /\ \E fromMe \in BOOLEAN : fromMe \/ ~whatsappReady
    /\ UNCHANGED vars

\* if (!message.fromMe && whatsappReady): up to await message.getChat()
Receive ==
    /\ whatsappReady
    /\ Cardinality({m \in 1..MaxMsgs : Started(msgs[m])}) < MaxInFlight
    /\ \E m \in 1..MaxMsgs, c \in Chats, b \in Bodies :
          /\ msgs[m].pc = "idle"
          /\ \A k \in 1..(m - 1) : msgs[k].pc # "idle"
          /\ msgs' = [msgs EXCEPT ![m] =
                         [Idle EXCEPT !.pc = "getChat", !.contact = c, !.body = b,
                                      !.late = c \in everBusiness]]
    /\ UNCHANGED <<config, stores, clock, posts, history, sched>>

\* getChat() settles: a rejection is caught by nobody; a group chat ends the handler
GetChat(m, ok) ==
    /\ msgs[m].pc = "getChat"
    /\ msgs' = [msgs EXCEPT ![m] =
                   IF ok /\ ~IsGroupChat(msgs[m])
                   THEN [msgs[m] EXCEPT !.pc = "getContact"]
                   ELSE Done]
    /\ unhandledRejection' = (unhandledRejection \/ ~ok)
    /\ UNCHANGED <<config, stores, clock, posts, observed, sched>>

GetChatDone == \E m \in 1..MaxMsgs, ok \in BOOLEAN : GetChat(m, ok)

\* variant: the user turn is appended before the rate check
ComposeAppendsFirst(h, m, conv) ==
    LET c == h.contact
        created == IF conv[c] = NoRecord THEN NewConversation(m, now) ELSE conv[c]
        counted == [created EXCEPT !.messageCount = created.messageCount + 1]
    IN IF RateLimited(counted, now)
       THEN [handler |-> Done, conv |-> [conv EXCEPT ![c] = AppendUser(counted)]]
       ELSE [handler |-> [h EXCEPT !.pc = "fetch", !.history = counted.id,
                                   !.timeout = TRUE],
             conv |-> [conv EXCEPT ![c] = AppendUser(counted)]]

\* generateAIResponse up to await fetch(...): the handler and the stored
\* conversation after it
Compose(h, m, conv) ==
    LET c == h.contact
        created == IF conv[c] = NoRecord THEN NewConversation(m, now) ELSE conv[c]
        counted == [created EXCEPT !.messageCount = created.messageCount + 1]
    IN IF RateLimited(counted, now)
       THEN [handler |-> Done, conv |-> [conv EXCEPT ![c] = counted]]
       ELSE [handler |-> [h EXCEPT !.pc = "fetch", !.history = counted.id,
                                   !.timeout = TRUE],
             conv |-> [conv EXCEPT ![c] = AppendUser(counted)]]

\* variant: the keyword rules are tried before the business check
DecideRuleFirst(h, m, conv, biz) ==
    LET c == h.contact
        found == IF biz[c] = NoRecord THEN NewBusinessInfo ELSE biz[c]
        businessInfo == UpdateBusiness(found, ScoreOf[h.body])
        biz2 == [biz EXCEPT ![c] = businessInfo]
        rule == RuleOf[autoReplies][h.body]
    IN IF rule # 0
       THEN [handler |-> [h EXCEPT !.pc = "ruleReply",
                                   !.call = Call(c, autoReplies[rule].response)],
             conv |-> conv, biz |-> biz2]
       ELSE IF businessInfo.isBusiness
       THEN [handler |-> Done, conv |-> conv, biz |-> biz2]
       ELSE IF AIConfigured(aiSettings)
       THEN [biz |-> biz2] @@ Compose(h, m, conv)
       ELSE [handler |-> Done, conv |-> conv, biz |-> biz2]

\* variant: the AI path is taken before the keyword rules are tried
DecideAIFirst(h, m, conv, biz) ==
    LET c == h.contact
        found == IF biz[c] = NoRecord THEN NewBusinessInfo ELSE biz[c]
        businessInfo == UpdateBusiness(found, ScoreOf[h.body])
        biz2 == [biz EXCEPT ![c] = businessInfo]
        rule == RuleOf[autoReplies][h.body]
    IN IF businessInfo.isBusiness
       THEN [handler |-> Done, conv |-> conv, biz |-> biz2]
       ELSE IF AIConfigured(aiSettings)
       THEN [biz |-> biz2] @@ Compose(h, m, conv)
       ELSE IF rule # 0
       THEN [handler |-> [h EXCEPT !.pc = "ruleReply",
                                   !.call = Call(c, autoReplies[rule].response)],
             conv |-> conv, biz |-> biz2]
       ELSE [handler |-> Done, conv |-> conv, biz |-> biz2]

\* from the business record check to the first await after it
Decide(h, m, conv, biz) ==
    LET c == h.contact
        found == IF biz[c] = NoRecord THEN NewBusinessInfo ELSE biz[c]
        businessInfo == UpdateBusiness(found, ScoreOf[h.body])
        biz2 == [biz EXCEPT ![c] = businessInfo]
        rule == RuleOf[autoReplies][h.body]
    IN IF businessInfo.isBusiness
       THEN [handler |-> Done, conv |-> conv, biz |-> biz2]
       ELSE IF rule # 0
       THEN [handler |-> [h EXCEPT !.pc = "ruleReply",
                                   !.call = Call(c, autoReplies[rule].response)],
             conv |-> conv, biz |-> biz2]
       ELSE IF AIConfigured(aiSettings)
       THEN [biz |-> biz2] @@ Compose(h, m, conv)
       ELSE [handler |-> Done, conv |-> conv, biz |-> biz2]

\* getContact() settles: a rejection is logged and the handler goes on
GetContact(m, ok) ==
    /\ msgs[m].pc = "getContact"
    /\ IF ok /\ IsTransportBusiness(msgs[m].contact)
       THEN /\ msgs' = [msgs EXCEPT ![m] = Done]
            /\ UNCHANGED <<stores, history>>
       ELSE LET d == Decide(msgs[m], m, conversationHistory, businessContacts)
            IN /\ msgs' = [msgs EXCEPT ![m] = d.handler]
               /\ Record(d.conv, d.biz, {})
               /\ UNCHANGED <<lastSweep, unhandledRejection>>
    /\ UNCHANGED <<config, clock, posts, sched>>

GetContactDone == \E m \in 1..MaxMsgs, ok \in BOOLEAN : GetContact(m, ok)

\* variant: no return after the rule reply, the AI path answers as well
RuleReplyThenAI(m, ok) ==
    /\ msgs[m].pc = "ruleReply"
    /\ msgs' = [msgs EXCEPT ![m] =
                   IF ok /\ AIConfigured(aiSettings)
                   THEN [msgs[m] EXCEPT !.pc = "aiReply",
                                        !.call = Call(msgs[m].contact, "On it.")]
                   ELSE Done]
    /\ unhandledRejection' = (unhandledRejection \/ ~ok)
    /\ UNCHANGED <<config, stores, clock, posts, observed, sched>>

\* message.reply(rule.response) settles: a rejection is caught by nobody; return
RuleReply(m, ok) ==
    /\ msgs[m].pc = "ruleReply"
    /\ msgs' = [msgs EXCEPT ![m] = Done]
    /\ unhandledRejection' = (unhandledRejection \/ ~ok)
    /\ UNCHANGED <<config, stores, clock, posts, observed, sched>>

RuleReplyDone == \E m \in 1..MaxMsgs, ok \in BOOLEAN : RuleReply(m, ok)

\* variant: the failed call takes the user turn back out of the record
FetchFailureDropsTurn(h, conv) ==
    LET c == h.contact
    IN [handler |-> Done,
        conv |-> IF conv[c] # NoRecord /\ Len(conv[c].messages) > 0
                 THEN [conv EXCEPT ![c].messages =
                          SubSeq(conv[c].messages, 1, Len(conv[c].messages) - 1)]
                 ELSE conv]

\* catch (error) { clearTimeout; log; throw error } of generateAIResponse and
\* catch (error) { log } of the handler: nothing is written, nothing is sent
FetchFailure(h, conv) == [handler |-> Done, conv |-> conv]

\* the completion call fails: fetch rejects or is aborted while the timer is
\* armed, or the status is not 2xx or the body is malformed after it was cleared
FetchFail(m) ==
    /\ msgs[m].pc = "fetch"
    /\ LET failed == FetchFailure(msgs[m], conversationHistory)
       IN /\ msgs' = [msgs EXCEPT ![m] = failed.handler]
          /\ Record(failed.conv, businessContacts, {})
    /\ UNCHANGED <<config, clock, posts, lastSweep, unhandledRejection, sched>>

FetchFailed == \E m \in 1..MaxMsgs : FetchFail(m)

\* the writes through the `history` reference reach the stored record only
\* while conversationHistory[contact] is still that object
StoreAssistant(conv, h) ==
    IF conv[h.contact] # NoRecord /\ conv[h.contact].id = h.history
    THEN [conv EXCEPT ![h.contact] = AppendAssistant(conv[h.contact], now)]
    ELSE conv

\* await fetch(...) resolves with the response's status and headers:
\* clearTimeout(timeout), and on to reading the body
FetchResponded ==
    \E m \in 1..MaxMsgs :
        /\ msgs[m].pc = "fetch"
        /\ msgs[m].timeout
        /\ msgs' = [msgs EXCEPT ![m].timeout = FALSE]
        /\ UNCHANGED <<config, stores, clock, posts, history, sched>>

\* await response.json() resolves: from data.choices[0].message.content.trim()
\* to the next await
FetchDone ==
    \E m \in 1..MaxMsgs, content \in Completions :
        LET h == [msgs[m] EXCEPT !.aiReply = Trim(content)]
        IN /\ msgs[m].pc = "fetch"
           /\ ~msgs[m].timeout
           /\ Record(StoreAssistant(conversationHistory, h), businessContacts,
                     IF h.aiReply # "" THEN {h.contact} ELSE {})
           /\ msgs' = [msgs EXCEPT ![m] =
                          IF EmergencyOf[h.body] /\ aiSettings.emergencyNumber # ""
                          THEN [h EXCEPT !.pc = "contactName"]
                          ELSE ReturnReply(h)]
           /\ UNCHANGED <<config, clock, posts, lastSweep, unhandledRejection, sched>>

\* getContactName settles (it catches its own failure); the alert is built and sent
ContactNameDone ==
    \E m \in 1..MaxMsgs, ok \in BOOLEAN :
        LET h == msgs[m]
            contactName == IF ok THEN PushName(h.contact) ELSE BeforeAt(h.contact)
        IN /\ h.pc = "contactName"
           /\ msgs' = [msgs EXCEPT ![m] =
                          [h EXCEPT !.pc = "alertSend",
                                    !.call = Call(AlertRecipient(aiSettings.emergencyNumber),
                                                  AlertMessage(contactName, h.contact,
                                                               IncomingText[h.body]))]]
           /\ UNCHANGED <<config, stores, clock, posts, history, sched>>

\* client.sendMessage(emergencyNumber, emergencyMsg) settles
AlertSendDone ==
    \E m \in 1..MaxMsgs, sent \in BOOLEAN :
        /\ msgs[m].pc = "alertSend"
        /\ msgs' = [msgs EXCEPT ![m] = AfterAlert(msgs[m], sent)]
        /\ UNCHANGED <<config, stores, clock, posts, history, sched>>

\* message.reply(aiResponse) settles: a rejection is caught and logged
AiReply(m, ok) ==
    /\ msgs[m].pc = "aiReply"
    /\ msgs' = [msgs EXCEPT ![m] = Done]
    /\ UNCHANGED <<config, stores, clock, posts, history, sched>>

AiReplyDone == \E m \in 1..MaxMsgs, ok \in BOOLEAN : AiReply(m, ok)

-----------------------------------------------------------------------------

Next ==
    \/ OnReady
    \/ Tick
    \/ PostAutoReplies
    \/ PostAiSettings
    \/ RetentionSweep
    \/ ReceiveIgnored
    \/ Receive
    \/ GetChatDone
    \/ GetContactDone
    \/ RuleReplyDone
    \/ FetchFailed
    \/ FetchResponded
    \/ FetchDone
    \/ ContactNameDone
    \/ AlertSendDone
    \/ AiReplyDone

Spec == Init /\ [][Next]_vars

-----------------------------------------------------------------------------
(* A restart: conversations.json and business_contacts.json hold what an    *)
(* earlier run saved after three answered messages of one contact.          *)

SavedConversation ==
    [id |-> 0,
     messages |-> <<"user", "assistant", "user", "assistant", "user", "assistant">>,
     hasIntroduced |-> TRUE, messageCount |-> 3,
     firstMessageTime |-> StartTime - 6 * SweepIntervalMs,
     lastResponseTime |-> StartTime - SweepIntervalMs]

InitRestart ==
    /\ whatsappReady = FALSE
    /\ autoReplies \in RuleLists
    /\ aiSettings \in {Settings(FALSE, "", ""), Settings(TRUE, "sk-1", "+91 98")}
    /\ conversationHistory =
           [c \in Chats |-> IF c = "c1@c.us" THEN SavedConversation ELSE NoRecord]
    /\ businessContacts =
           [c \in Chats |-> IF c = "c1@c.us" THEN NewBusinessInfo ELSE NoRecord]
    /\ now = StartTime
    /\ msgs = [m \in 1..MaxMsgs |-> Idle]
    /\ ticks = 0
    /\ posts = 0
    /\ everBusiness = {}
    /\ peakConfidence = [c \in Chats |-> 0]
    /\ lastAIReplyTime =
           [c \in Chats |-> IF c = "c1@c.us" THEN StartTime - SweepIntervalMs ELSE 0]
    /\ lastSweep = 0
    /\ unhandledRejection = FALSE
    /\ DispatcherAtRest
    /\ SessionAtStart

SpecRestart == InitRestart /\ [][Next]_vars

-----------------------------------------------------------------------------
(* The scheduled-messages dispatcher: setInterval(async () => ..., 30000),   *)
(* with the connection events and the route that replaces the array.  The    *)
(* message handler shares no data with it and stays at rest here.            *)

\* the connection is lost: client.on('change_state') with CONFLICT or UNPAIRED
OnDisconnected ==
    /\ whatsappReady' = FALSE
    /\ UNCHANGED <<autoReplies, aiSettings, stores, clock, msgs, posts, history, sched,
                   session>>

\* app.post('/scheduled-messages'): scheduledMessages = req.body
PostScheduledMessages ==
    /\ posts < MaxPosts
    /\ \E body \in Queues :
          /\ scheduledMessages' = Objects(body, nextOid)
          /\ nextOid' = nextOid + Len(body)
    /\ posts' = posts + 1
    /\ UNCHANGED <<config, stores, clock, msgs, history,
                   scans, dispatches, sentOk, attempts, sendFailed>>

\* client.sendMessage is called for the entry a run has stopped at
Attempted(scan) ==
    IF scan.pc = "send" THEN [attempts EXCEPT ![scan.msg] = @ + 1] ELSE attempts

\* the callback of the interval, with `const now = new Date()` being `start`:
\* it runs to its first await or to its end
Callback(start) ==
    /\ IF Connected(whatsappReady)
       THEN \E s \in 1..MaxScans :
               /\ ~Scanning(scans[s])
               /\ \A k \in 1..(s - 1) : Scanning(scans[k])
               /\ LET begun == [NoScan EXCEPT
                                   !.start = start,
                                   !.atStart = Oids(scheduledMessages),
                                   !.due = DueOids(scheduledMessages, start)]
                      scan == ScanFrom(scheduledMessages, begun, Len(scheduledMessages))
                  IN /\ scans' = [scans EXCEPT ![s] = scan]
                     /\ attempts' = Attempted(scan)
       ELSE UNCHANGED <<scans, attempts>>
    /\ UNCHANGED <<config, stores, ticks, msgs, posts, history,
                   scheduledMessages, nextOid, sentOk, sendFailed>>

\* the interval fires
Dispatch ==
    /\ dispatches < MaxDispatches
    /\ dispatches' = dispatches + 1
    /\ now' = now + DispatchIntervalMs
    /\ Callback(now')

\* the interval fires, and goes on firing every 30 seconds for ever: past
\* MaxDispatches firings the count and the clock are no longer advanced
DispatchAgain ==
    /\ dispatches' = Min(dispatches + 1, MaxDispatches)
    /\ now' = IF dispatches < MaxDispatches THEN now + DispatchIntervalMs ELSE now
    /\ Callback(now')

\* await client.sendMessage(...) resolves: splice, saveData, and on with the loop
SendResolved(s) ==
    /\ Scanning(scans[s])
    /\ LET queue == Splice(scheduledMessages, scans[s].i)
           scan == ScanFrom(queue, scans[s], scans[s].i - 1)
       IN /\ scheduledMessages' = queue
          /\ scans' = [scans EXCEPT ![s] = scan]
          /\ attempts' = Attempted(scan)
    /\ sentOk' = sentOk \cup {scans[s].msg}
    /\ UNCHANGED <<config, stores, clock, msgs, posts, history,
                   dispatches, nextOid, sendFailed>>

ScheduledSendResolved == \E s \in 1..MaxScans : SendResolved(s)

\* await client.sendMessage(...) rejects: msg.status = 'failed', and on with the loop
SendRejected(s) ==
    /\ Scanning(scans[s])
    /\ LET queue == MarkFailed(scheduledMessages, scans[s].msg)
           scan == ScanFrom(queue, scans[s], scans[s].i - 1)
       IN /\ scheduledMessages' = queue
          /\ scans' = [scans EXCEPT ![s] = scan]
          /\ attempts' = Attempted(scan)
    /\ sendFailed' = TRUE
    /\ UNCHANGED <<config, stores, clock, msgs, posts, history,
                   dispatches, nextOid, sentOk>>

ScheduledSendRejected == \E s \in 1..MaxScans : SendRejected(s)

\* scheduled.json may hold what an earlier run saved
InitDispatcher ==
    /\ whatsappReady = FALSE
    /\ autoReplies = <<>>
    /\ aiSettings = Settings(FALSE, "", "")
    /\ conversationHistory = [c \in Chats |-> NoRecord]
    /\ businessContacts = [c \in Chats |-> NoRecord]
    /\ now = StartTime
    /\ msgs = [m \in 1..MaxMsgs |-> Idle]
    /\ ticks = 0
    /\ posts = 0
    /\ everBusiness = {}
    /\ peakConfidence = [c \in Chats |-> 0]
    /\ lastAIReplyTime = [c \in Chats |-> 0]
    /\ lastSweep = 0
    /\ unhandledRejection = FALSE
    /\ \E saved \in Queues :
          /\ scheduledMessages = Objects(saved, 1)
          /\ nextOid = 1 + Len(saved)
    /\ scans = [s \in 1..MaxScans |-> NoScan]
    /\ dispatches = 0
    /\ sentOk = {}
    /\ attempts = [o \in 1..MaxOid |-> 0]
    /\ sendFailed = FALSE
    /\ SessionAtStart

NextDispatcher ==
    \/ OnReady
    \/ OnDisconnected
    \/ PostScheduledMessages
    \/ Dispatch
    \/ ScheduledSendResolved
    \/ ScheduledSendRejected

SpecDispatcher == InitDispatcher /\ [][NextDispatcher]_vars

-----------------------------------------------------------------------------
(* The dispatcher while the transport stays connected once it is ready.    *)
(* setInterval fires the callback again and again, and every call of       *)
(* client.sendMessage returns, resolved or rejected, as long as the        *)
(* process runs.  A run that throws rejects the promise of the async       *)
(* callback, which nobody handles: the runtime then either only warns or   *)
(* ends the process (the default since Node 15), so once a run has thrown  *)
(* nothing is guaranteed to happen any more.                               *)

SendReturns(s) == SendResolved(s) \/ SendRejected(s)

\* no run of the callback has thrown: the process is certainly running
NoRunThrew == \A s \in 1..MaxScans : scans[s].pc # "crashed"

NextConnected ==
    \/ OnReady
    \/ PostScheduledMessages
    \/ DispatchAgain
    \/ ScheduledSendResolved
    \/ ScheduledSendRejected

SpecConnected ==
    /\ InitDispatcher
    /\ [][NextConnected]_vars
    /\ WF_vars(NoRunThrew /\ DispatchAgain)
    /\ \A s \in 1..MaxScans : WF_vars(NoRunThrew /\ SendReturns(s))

-----------------------------------------------------------------------------
(* The session logic: pairing, ready, failures and the reconnect of         *)
(* client.on('disconnected').  The transport's events may come in any order. *)

MaxReconnects == 3
MaxRendering == 1

\* what client.on('disconnected') is told
Reasons == {"LOGOUT", "NAVIGATION"}

rest == <<autoReplies, aiSettings, stores, clock, msgs, posts, history, sched>>

\* client.on('qr') up to await qrcode.toDataURL(qr)
OnQr ==
    /\ qrRendering < MaxRendering
    /\ qrRendering' = qrRendering + 1
    /\ UNCHANGED <<whatsappReady, rest, isInitializing, reconnectAttempts,
                   reconnectTimers, initializing, qrCodeData>>

\* qrcode.toDataURL settles: qrCodeData is assigned, or the failure is logged
QrRendered ==
    \E ok \in BOOLEAN :
        /\ qrRendering > 0
        /\ qrRendering' = qrRendering - 1
        /\ qrCodeData' = (ok \/ qrCodeData)
        /\ UNCHANGED <<whatsappReady, rest, isInitializing, reconnectAttempts,
                       reconnectTimers, initializing>>

\* client.on('auth_failure')
OnAuthFailure ==
    /\ whatsappReady' = FALSE
    /\ isInitializing' = FALSE
    /\ UNCHANGED <<rest, reconnectAttempts, reconnectTimers, initializing,
                   qrCodeData, qrRendering>>

\* client.on('disconnected'): setTimeout(() => client.initialize()..., 5000)
\* unless logged out or isInitializing
Disconnected(reason) ==
    /\ whatsappReady' = FALSE
    /\ IF reason = "LOGOUT"
       THEN /\ qrCodeData' = FALSE
            /\ UNCHANGED <<isInitializing, reconnectTimers>>
       ELSE IF ~isInitializing
       THEN /\ reconnectTimers + initializing < MaxReconnects
            /\ isInitializing' = TRUE
            /\ reconnectTimers' = reconnectTimers + 1
            /\ UNCHANGED qrCodeData
       ELSE UNCHANGED <<isInitializing, reconnectTimers, qrCodeData>>
    /\ UNCHANGED <<rest, reconnectAttempts, initializing, qrRendering>>

OnDisconnectedEvent == \E reason \in Reasons : Disconnected(reason)

\* the 5-second timer fires: client.initialize() is called
ReconnectTimerFires ==
    /\ reconnectTimers > 0
    /\ reconnectTimers' = reconnectTimers - 1
    /\ initializing' = initializing + 1
    /\ UNCHANGED <<whatsappReady, rest, isInitializing, reconnectAttempts,
                   qrCodeData, qrRendering>>

\* client.initialize() settles: .catch(err => { isInitializing = false })
InitializeSettled ==
    \E ok \in BOOLEAN :
        /\ initializing > 0
        /\ initializing' = initializing - 1
        /\ isInitializing' = (ok /\ isInitializing)
        /\ UNCHANGED <<whatsappReady, rest, reconnectAttempts, reconnectTimers,
                       qrCodeData, qrRendering>>

NextSession ==
    \/ OnQr
    \/ QrRendered
    \/ OnReady
    \/ OnAuthFailure
    \/ OnDisconnectedEvent
    \/ OnDisconnected
    \/ ReconnectTimerFires
    \/ InitializeSettled

SpecSession == Init /\ [][NextSession]_vars

-----------------------------------------------------------------------------
(* The bounded-retry variant of the session logic (unnamed/part_000): the    *)
(* handlers count the reconnects in reconnectAttempts instead of guarding    *)
(* them with isInitializing, which this variant does not have.               *)

MAX_RECONNECT_ATTEMPTS == 5

\* variant: the sixth attempt is still allowed
MayReconnectInclusive(n) == n <= MAX_RECONNECT_ATTEMPTS

\* if (reconnectAttempts < MAX_RECONNECT_ATTEMPTS)
MayReconnect(n) == n < MAX_RECONNECT_ATTEMPTS

\* client.on('qr') up to await qrcode.toDataURL(qr)
RetryOnQr ==
    /\ qrRendering < MaxRendering
    /\ qrRendering' = qrRendering + 1
    /\ UNCHANGED <<whatsappReady, rest, isInitializing, reconnectAttempts,
                   reconnectTimers, initializing, qrCodeData>>

\* the rest of client.on('qr'): qrCodeData is assigned; reconnectAttempts = 0
RetryQrRendered ==
    /\ qrRendering > 0
    /\ qrRendering' = qrRendering - 1
    /\ qrCodeData' = TRUE
    /\ reconnectAttempts' = 0
    /\ UNCHANGED <<whatsappReady, rest, isInitializing, reconnectTimers, initializing>>

\* client.on('ready')
RetryOnReady ==
    /\ whatsappReady' = TRUE
    /\ qrCodeData' = FALSE
    /\ reconnectAttempts' = 0
    /\ UNCHANGED <<rest, isInitializing, reconnectTimers, initializing, qrRendering>>

\* the body the two failure handlers share: whatsappReady = false; below the
\* maximum reconnectAttempts++ and setTimeout(() => client.initialize(), ...)
RetryOrGiveUp ==
    /\ whatsappReady' = FALSE
    /\ IF MayReconnect(reconnectAttempts)
       THEN /\ reconnectTimers + initializing < MaxReconnects
            /\ reconnectAttempts' = reconnectAttempts + 1
            /\ reconnectTimers' = reconnectTimers + 1
       ELSE UNCHANGED <<reconnectAttempts, reconnectTimers>>
    /\ UNCHANGED <<rest, isInitializing, initializing, qrCodeData, qrRendering>>

\* client.on('auth_failure')
RetryOnAuthFailure == RetryOrGiveUp

\* client.on('disconnected')
RetryOnDisconnected == RetryOrGiveUp

\* a reconnect timer fires: client.initialize()
RetryTimerFires ==
    /\ reconnectTimers > 0
    /\ reconnectTimers' = reconnectTimers - 1
    /\ initializing' = initializing + 1
    /\ UNCHANGED <<whatsappReady, rest, isInitializing, reconnectAttempts,
                   qrCodeData, qrRendering>>

\* client.initialize() settles; nobody looks at its outcome
RetryInitializeSettled ==
    /\ initializing > 0
    /\ initializing' = initializing - 1
    /\ UNCHANGED <<whatsappReady, rest, isInitializing, reconnectAttempts,
                   reconnectTimers, qrCodeData, qrRendering>>

\* the keep-alive check finds the state not CONNECTED, or getState() fails
KeepAliveLost ==
    /\ whatsappReady
    /\ whatsappReady' = FALSE
    /\ UNCHANGED <<rest, session>>

NextBoundedRetry ==
    \/ RetryOnQr
    \/ RetryQrRendered
    \/ RetryOnReady
    \/ RetryOnAuthFailure
    \/ RetryOnDisconnected
    \/ RetryTimerFires
    \/ RetryInitializeSettled
    \/ KeepAliveLost

SpecBoundedRetry == Init /\ [][NextBoundedRetry]_vars

-----------------------------------------------------------------------------
(* Vocabulary of the properties *)

Handlers == 1..MaxMsgs

\* handler m takes a step
Steps(m) == msgs'[m] # msgs[m]

\* handler m has a transport send in flight: a reply to the sender or an alert
Replying(h) == h.pc \in {"ruleReply", "aiReply"}
Sending(h) == h.pc \in {"ruleReply", "aiReply", "alertSend"}

\* `needle` occurs in `hay` when letter case is ignored, character by character
OccursIgnoringCase(hay, needle) ==
    \E i \in 0..(Len(hay) - Len(needle)) :
        \A k \in 1..Len(needle) :
            LowerChar(CharAt(hay, i + k)) = LowerChar(CharAt(needle, k))

\* rule i is the first rule of the list whose trigger occurs in the text
IsFirstMatching(rules, text, i) ==
    /\ i \in 1..Len(rules)
    /\ OccursIgnoringCase(text, rules[i].trigger)
    /\ \A j \in 1..(i - 1) : ~OccursIgnoringCase(text, rules[j].trigger)

StoredConfidence(biz, c) == IF biz[c] = NoRecord THEN 0 ELSE biz[c].detectionConfidence
StoredBusiness(biz, c) == biz[c] # NoRecord /\ biz[c].isBusiness

-----------------------------------------------------------------------------
(* C1.  Once a contact's record has isBusiness = true, no reply (rule or   *)
(* AI) is sent for any later inbound message of that contact: a handler    *)
(* that started after the contact was flagged never has a reply in flight. *)
C1_NoReplyOnceBusiness ==
    \A m \in Handlers : msgs[m].late => ~Replying(msgs[m])

(* C2.  A message from a group chat causes no outbound send and no change  *)
(* of a conversation or business record: every step of its handler leaves  *)
(* both stores as they are and leaves the handler waiting for the chat     *)
(* lookup or ended, with no send in flight.                                *)
C2_GroupSilent ==
    [][\A m \in Handlers :
          (Steps(m) /\ (msgs[m].contact \in Groups \/ msgs'[m].contact \in Groups))
          => /\ conversationHistory' = conversationHistory
             /\ businessContacts' = businessContacts
             /\ msgs'[m].pc \in {"getChat", "done"}
             /\ msgs'[m].call = NoCall]_vars

\* a group message whose text matches a rule is waiting for its chat lookup
\* while the AI path is open as well
C2_Witness ==
    \E m \in Handlers :
        /\ msgs[m].contact \in Groups
        /\ msgs[m].pc = "getChat"
        /\ \E i \in 1..Len(autoReplies) :
               IsFirstMatching(autoReplies, Trim(msgs[m].body), i)
        /\ AIConfigured(aiSettings)

(* C3.  For a message that reaches rule matching, the reply is the         *)
(* response of the first rule in list order whose trigger is a             *)
(* case-insensitive substring of the trimmed text; then exactly that       *)
(* response is sent and the completion service is not called.              *)
C3_FirstRuleWins ==
    [][\A m \in Handlers :
          LET h == msgs[m]
              text == Trim(h.body)
              passed == /\ h.contact \notin TransportBusiness
                        /\ ~StoredBusiness(businessContacts', h.contact)
          IN /\ (h.pc = "getContact" /\ Steps(m))
                => /\ \A i \in 1..Len(autoReplies) :
                         (passed /\ IsFirstMatching(autoReplies, text, i))
                         => /\ msgs'[m].pc = "ruleReply"
                            /\ msgs'[m].call = Call(h.contact, autoReplies[i].response)
                   /\ msgs'[m].pc = "ruleReply"
                         => \E i \in 1..Len(autoReplies) :
                               /\ IsFirstMatching(autoReplies, text, i)
                               /\ msgs'[m].call = Call(h.contact, autoReplies[i].response)
                   /\ msgs'[m].pc = "fetch"
                         => \A i \in 1..Len(autoReplies) :
                               ~OccursIgnoringCase(text, autoReplies[i].trigger)
             /\ (h.pc = "ruleReply" /\ Steps(m)) => msgs'[m].pc = "done"]_vars

\* the second rule answers a text that the third rule matches too, and that
\* the first rule would match before trimming
C3_Witness ==
    \E m \in Handlers :
        /\ msgs[m].pc = "ruleReply"
        /\ IsFirstMatching(autoReplies, Trim(msgs[m].body), 2)
        /\ OccursIgnoringCase(Trim(msgs[m].body), autoReplies[3].trigger)
        /\ OccursIgnoringCase(msgs[m].body, autoReplies[1].trigger)
        /\ msgs[m].call = Call(msgs[m].contact, autoReplies[2].response)

(* C4.  In every reachable state the length of each                         *)
(* ConversationRecord.messages is at most the window (6).                   *)
C4_WindowBound ==
    \A c \in Chats :
        conversationHistory[c] # NoRecord
        => Len(conversationHistory[c].messages) <= HistoryWindow

(* C5.  Per contact, over inbound messages and retention sweeps,            *)
(* detectionConfidence never decreases and never exceeds 100, and           *)
(* isBusiness, once true, never returns to false.                           *)
C5_ConfidenceMonotone ==
    \A c \in Chats :
        businessContacts[c] # NoRecord
        => /\ businessContacts[c].detectionConfidence <= ConfidenceCap
           /\ businessContacts[c].detectionConfidence >= peakConfidence[c]
           /\ c \in everBusiness => businessContacts[c].isBusiness

\* the text holds one of the emergency keywords, letter case ignored
UrgentText(text) == \E keyword \in EmergencyKeywords : OccursIgnoringCase(text, keyword)

\* handler m of a direct contact the transport does not flag goes through the
\* business scoring in this step
Scores(m) ==
    /\ msgs[m].pc = "getContact"
    /\ Steps(m)
    /\ msgs[m].contact \notin TransportBusiness

\* handler m enters generateAIResponse in this step: only there does a
\* handler waiting for the contact lookup change the conversation store
Composes(m) ==
    /\ msgs[m].pc = "getContact"
    /\ Steps(m)
    /\ conversationHistory' # conversationHistory

\* handler m ends in this step
Ends(m) == Started(msgs[m]) /\ msgs'[m].pc = "done"

(* C6 as claimed.  Every score computed for an inbound message is added to *)
(* the stored detectionConfidence (capped at 100) and isBusiness is true   *)
(* as soon as the running total reaches 20, so scores below 20 accumulate. *)
C6_EveryScoreAccumulates ==
    [][\A m \in Handlers :
          Scores(m)
          => LET c == msgs[m].contact
                 total == Min(ConfidenceCap,
                              StoredConfidence(businessContacts, c)
                              + ScoreOf[msgs[m].body])
             IN /\ StoredConfidence(businessContacts', c) = total
                /\ StoredBusiness(businessContacts', c)
                      = (StoredBusiness(businessContacts, c)
                         \/ total >= BusinessThreshold)]_vars

(* C6 as amended.  A message's score is added to the stored                *)
(* detectionConfidence (capped at 100), and isBusiness set, only when that *)
(* one message scores at least 20; a score below 20 is dropped and leaves  *)
(* confidence and flag as they were.                                       *)
C6_ScoreCountsFromThreshold ==
    [][\A m \in Handlers :
          Scores(m)
          => LET c == msgs[m].contact
                 score == ScoreOf[msgs[m].body]
                 before == StoredConfidence(businessContacts, c)
             IN IF score >= BusinessThreshold
                THEN /\ StoredConfidence(businessContacts', c)
                           = Min(ConfidenceCap, before + score)
                     /\ StoredBusiness(businessContacts', c)
                ELSE /\ StoredConfidence(businessContacts', c) = before
                     /\ StoredBusiness(businessContacts', c)
                           = StoredBusiness(businessContacts, c)]_vars

\* two scoring messages have taken a contact's confidence to the cap
C6_Witness ==
    \E c \in Contacts :
        /\ StoredBusiness(businessContacts, c)
        /\ StoredConfidence(businessContacts, c) = ConfidenceCap

(* C7.  An inbound direct message of a non-business contact that holds an  *)
(* emergency keyword, with an emergency contact configured, has an alert   *)
(* sent whether it was answered by a rule, answered by the AI, debounced,  *)
(* or its completion call failed: no such handler ends without one.        *)
C7_AlertOnEveryPath ==
    [][\A m \in Handlers :
          ( /\ Ends(m)
            /\ \/ msgs[m].pc \in {"ruleReply", "aiReply", "fetch"}
               \/ Composes(m)
            /\ UrgentText(msgs[m].body)
            /\ aiSettings.emergencyNumber # "" )
          => msgs[m].alert # "none"]_vars

(* C8.  When an urgent message takes the AI path, the completion service   *)
(* returns a reply and an emergency contact is configured, an alert goes   *)
(* to the digits of the configured number plus "@c.us", it holds the       *)
(* original text, and the reply goes to the sender.                        *)
C8_ReplyAndAlert ==
    [][\A m \in Handlers :
          LET h == msgs[m]
          IN /\ ( /\ h.pc = "fetch"
                  /\ Steps(m)
                  /\ msgs'[m].aiReply # ""
                  /\ UrgentText(h.body)
                  /\ aiSettings.emergencyNumber # "" )
                => msgs'[m].pc = "contactName"
             /\ (h.pc = "contactName" /\ Steps(m))
                => /\ msgs'[m].pc = "alertSend"
                   /\ msgs'[m].call.to = DigitsOnly(aiSettings.emergencyNumber) \o "@c.us"
                   /\ Includes(msgs'[m].call.text, h.body)
             /\ (h.pc = "alertSend" /\ Steps(m) /\ h.aiReply # "")
                => /\ msgs'[m].pc = "aiReply"
                   /\ msgs'[m].call = Call(h.contact, h.aiReply)]_vars

(* C9.  If the escalation alert fails (the contact-name lookup or the send *)
(* throws), compose still returns the AI reply and the reply is still sent *)
(* to the sender; the alert is not retried and the handler goes on as      *)
(* after a delivered alert.                                                *)
C9_AlertFailureHarmless ==
    [][\A m \in Handlers :
          LET h == msgs[m]
          IN /\ (h.pc = "contactName" /\ Steps(m))
                => msgs'[m].pc = "alertSend" /\ msgs'[m].aiReply = h.aiReply
             /\ (h.pc = "alertSend" /\ Steps(m))
                => IF h.aiReply # ""
                   THEN /\ msgs'[m].pc = "aiReply"
                        /\ msgs'[m].aiReply = h.aiReply
                        /\ msgs'[m].call = Call(h.contact, h.aiReply)
                   ELSE msgs'[m].pc = "done"
             /\ (h.alert = "failed" /\ Steps(m)) => msgs'[m].pc = "done"]_vars

\* the alert send has failed and the reply to the sender is in flight
C9_Witness ==
    \E m \in Handlers :
        /\ msgs[m].alert = "failed"
        /\ msgs[m].pc = "aiReply"
        /\ msgs[m].call = Call(msgs[m].contact, "On it.")

(* C10 as claimed.  If compose is invoked for a contact less than 3        *)
(* seconds after a prior successful AI reply to that contact, it returns   *)
(* null and no reply is sent for that message.                             *)
C10_DebounceAfterReply ==
    [][\A m \in Handlers :
          ( /\ Composes(m)
            /\ lastAIReplyTime[msgs[m].contact] > 0
            /\ now - lastAIReplyTime[msgs[m].contact] < DebounceMs )
          => msgs'[m].pc = "done"]_vars

(* C10 as amended.  If compose is invoked for a contact whose stored       *)
(* ConversationRecord holds the lastResponseTime of a prior reply less     *)
(* than 3 seconds old, it returns null: the handler ends with no           *)
(* completion call and no send, and only messageCount changes.             *)
C10_DebounceWhileRecordKept ==
    [][\A m \in Handlers :
          LET c == msgs[m].contact
              stored == conversationHistory[c]
          IN ( /\ Composes(m)
               /\ stored # NoRecord
               /\ stored.hasIntroduced
               /\ now - stored.lastResponseTime < DebounceMs )
             => /\ msgs'[m].pc = "done"
                /\ conversationHistory' =
                      [conversationHistory EXCEPT
                          ![c] = [stored EXCEPT !.messageCount = stored.messageCount + 1]]]_vars

\* a second message came within the window of the reply to the first: it
\* was counted and not appended
C10_Witness ==
    \E c \in Contacts :
        /\ conversationHistory[c] # NoRecord
        /\ conversationHistory[c].messages = <<"user", "assistant">>
        /\ conversationHistory[c].messageCount = 2
        /\ now - conversationHistory[c].lastResponseTime < DebounceMs
        /\ \A m \in Handlers : msgs[m].pc \in {"idle", "done"}

(* C11.  Of two inbound messages of one contact that both reach the AI     *)
(* path less than 3 seconds apart, at most one leads to a completion call, *)
(* also when the second arrives while the first one's call is in flight:   *)
(* two calls for a contact whose record was created at the present clock   *)
(* value are never in flight together.                                     *)
C11_OneCallPerBurst ==
    \A m1, m2 \in Handlers :
        ( /\ m1 # m2
          /\ msgs[m1].pc = "fetch"
          /\ msgs[m2].pc = "fetch"
          /\ msgs[m1].contact = msgs[m2].contact )
        => LET stored == conversationHistory[msgs[m1].contact]
           IN ~(stored # NoRecord /\ stored.firstMessageTime = now)

(* C12.  No two inbound messages of one contact are decision-processed     *)
(* concurrently: a handler never changes that contact's ConversationRecord *)
(* or BusinessContactRecord while another handler for the same contact is  *)
(* suspended between its start and its end.                                *)
C12_OneHandlerPerContact ==
    [][\A m \in Handlers :
          LET c == msgs[m].contact
          IN ( /\ Started(msgs[m])
               /\ Steps(m)
               /\ \/ conversationHistory'[c] # conversationHistory[c]
                  \/ businessContacts'[c] # businessContacts[c] )
             => \A k \in Handlers \ {m} :
                    ~(Started(msgs[k]) /\ msgs[k].contact = c)]_vars

\* the runs of the dispatcher's callback
Scans == 1..MaxScans

\* run s of the dispatcher's callback ends in this step
Finishes(s) ==
    /\ scans'[s] # scans[s]
    /\ scans'[s].pc \in {"done", "crashed"}

(* C13.  With the transport connected and every send succeeding, a pending *)
(* entry whose datetime is at or before the tick's start time has been     *)
(* sent and is absent from the queue when that tick finishes (stated for   *)
(* queues that no scheduled-messages update has replaced).                 *)
C13_DueEntrySentAndGone ==
    [][\A s \in Scans :
          (Finishes(s) /\ whatsappReady /\ ~sendFailed' /\ posts = 0)
          => \A o \in scans'[s].due :
                 /\ o \in sentOk'
                 /\ o \notin Oids(scheduledMessages')]_vars

(* C14.  When the send of a due pending entry fails, the entry stays in    *)
(* the queue with status failed, and no later tick attempts to send it     *)
(* while its status remains failed (stated for queues that no              *)
(* scheduled-messages update has replaced).                                *)
C14_FailedStaysUnsent ==
    [][/\ \A s \in Scans :
             ( /\ Scanning(scans[s])
               /\ scans'[s] # scans[s]
               /\ sendFailed' /\ ~sendFailed
               /\ posts' = 0 )
             => \E k \in 1..Len(scheduledMessages') :
                    /\ scheduledMessages'[k].oid = scans[s].msg
                    /\ scheduledMessages'[k].status = "failed"
       /\ \A k \in 1..Len(scheduledMessages) :
             (posts' = 0 /\ scheduledMessages[k].status = "failed")
             => /\ attempts'[scheduledMessages[k].oid] = attempts[scheduledMessages[k].oid]
                /\ \E j \in 1..Len(scheduledMessages') :
                       scheduledMessages'[j] = scheduledMessages[k]]_vars

\* run s of the dispatcher's callback acts in this step
Acts(s) == scans'[s] # scans[s]

(* C15.  A dispatcher tick neither sends nor modifies nor removes an entry *)
(* that is not due or whose status is not pending; here for the entries    *)
(* whose datetime is after the tick's start time: each is in the queue,    *)
(* unchanged, after every step of the tick, and no send of it is begun     *)
(* (stated for queues that no scheduled-messages update has replaced).     *)
C15_OthersUntouched ==
    [][\A s \in Scans :
          (Acts(s) /\ posts' = 0)
          => \A k \in 1..Len(scheduledMessages) :
                 LET msg == scheduledMessages[k]
                 IN msg.datetime > scans'[s].start
                    => /\ \E j \in 1..Len(scheduledMessages') : scheduledMessages'[j] = msg
                       /\ attempts'[msg.oid] = attempts[msg.oid]]_vars

\* how many times run `scan` has looked at entry o
TimesExamined(scan, o) ==
    Cardinality({k \in 1..Len(scan.examined) : scan.examined[k] = o})

(* C16.  Within one dispatcher tick every entry that is in the queue when  *)
(* the tick starts is examined exactly once by that tick: no entry is      *)
(* skipped or processed twice because of a removal during the scan (stated *)
(* for queues that no scheduled-messages update has replaced).             *)
C16_EachEntryExaminedOnce ==
    [][\A s \in Scans :
          (Finishes(s) /\ posts' = 0)
          => \A o \in scans'[s].atStart : TimesExamined(scans'[s], o) = 1]_vars

(* C17.  A dispatcher tick that starts while the transport is not         *)
(* connected sends nothing and leaves the scheduled queue and every        *)
(* entry's status unchanged.                                               *)
C17_OfflineTickNoOp ==
    [][(dispatches' # dispatches /\ ~whatsappReady)
       => /\ scheduledMessages' = scheduledMessages
          /\ scans' = scans
          /\ attempts' = attempts
          /\ sentOk' = sentOk]_vars

\* the interval has fired with a due entry in the saved queue, and no send of
\* any entry was ever begun: every firing found the transport disconnected
C17_Witness ==
    /\ dispatches > 0
    /\ posts = 0
    /\ ~whatsappReady
    /\ \E k \in 1..Len(scheduledMessages) : IsDue(scheduledMessages[k], StartTime)
    /\ \A o \in 1..MaxOid : attempts[o] = 0

(* C18.  After a retention sweep has run, no ConversationRecord whose     *)
(* firstMessageTime is more than 7 days before the sweep remains, and no   *)
(* BusinessContactRecord remains for a contact whose ConversationRecord    *)
(* that sweep removed.                                                     *)
C18_SweepRemovesOld ==
    [][lastSweep' # lastSweep
       => \A c \in Chats :
              /\ conversationHistory'[c] # NoRecord
                 => conversationHistory'[c].firstMessageTime >= now - RetentionMs
              /\ (conversationHistory[c] # NoRecord /\ conversationHistory'[c] = NoRecord)
                 => businessContacts'[c] = NoRecord]_vars

\* a contact that was answered more than 7 days before the latest sweep has
\* neither record left
C18_Witness ==
    \E c \in Contacts :
        /\ lastSweep > 0
        /\ lastAIReplyTime[c] > 0
        /\ lastAIReplyTime[c] < lastSweep - RetentionMs
        /\ conversationHistory[c] = NoRecord
        /\ businessContacts[c] = NoRecord

(* C19.  A BusinessContactRecord is deleted only when its paired          *)
(* ConversationRecord is deleted: a retention sweep leaves unchanged every *)
(* BusinessContactRecord whose contact had no ConversationRecord removed   *)
(* in that sweep.                                                          *)
C19_BusinessKeptWithoutRemoval ==
    [][lastSweep' # lastSweep
       => \A c \in Chats :
              ~(conversationHistory[c] # NoRecord /\ conversationHistory'[c] = NoRecord)
              => businessContacts'[c] = businessContacts[c]]_vars

(* C20.  The decision stages run in the order group filter, transport     *)
(* business flag, heuristic business scoring, keyword rule, AI, and the    *)
(* first applicable stage ends processing.  A group message ends at the    *)
(* chat lookup; a direct message whose own score is at least 20 ends with  *)
(* no reply and no conversation change, the contact marked business        *)
(* (unless the transport flag ended it first), whatever the rules and the  *)
(* AI settings; a rule reply or a completion call is begun only for a      *)
(* contact not marked business, and a completion call only when no rule    *)
(* matches.                                                                *)
C20_StageOrder ==
    [][\A m \in Handlers :
          LET h == msgs[m]
              c == h.contact
          IN /\ (h.pc = "getChat" /\ Steps(m) /\ c \in Groups)
                => msgs'[m] = Done
             /\ (h.pc = "getContact" /\ Steps(m) /\ ScoreOf[h.body] >= BusinessThreshold)
                => /\ msgs'[m] = Done
                   /\ conversationHistory' = conversationHistory
                   /\ \/ StoredBusiness(businessContacts', c)
                      \/ c \in TransportBusiness /\ businessContacts' = businessContacts
             /\ (h.pc = "getContact" /\ Steps(m) /\ Started(msgs'[m]))
                => /\ ~StoredBusiness(businessContacts, c)
                   /\ ~StoredBusiness(businessContacts', c)
                   /\ msgs'[m].pc = "fetch"
                      => \A i \in 1..Len(autoReplies) :
                             ~OccursIgnoringCase(Trim(h.body), autoReplies[i].trigger)]_vars

\* a contact was marked business by a message that also matched a rule, with
\* AI configured, and nothing was sent or stored for a conversation
C20_Witness ==
    \E c \in Contacts :
        /\ StoredBusiness(businessContacts, c)
        /\ StoredConfidence(businessContacts, c) = 55
        /\ conversationHistory[c] = NoRecord
        /\ lastAIReplyTime[c] = 0
        /\ AIConfigured(aiSettings)
        /\ posts = 0
        /\ Len(autoReplies) > 0
        /\ \A m \in Handlers : ~Started(msgs[m])

-----------------------------------------------------------------------------
\* the contact lookup of handler m settles in this step and the business
\* filter discards the message: the transport flags the contact
DiscardedByTransport(m) ==
    GetContact(m, TRUE) /\ msgs[m].contact \in TransportBusiness

\* ... or the contact's local record is already marked business
DiscardedByRecord(m) ==
    /\ \E ok \in BOOLEAN : GetContact(m, ok)
    /\ ~DiscardedByTransport(m)
    /\ StoredBusiness(businessContacts, msgs[m].contact)

(* C21 as claimed.  A message discarded by the business filter, on the     *)
(* transport's flag or on a local record already marked business, has      *)
(* nothing sent and leaves the business records (confidence included) and  *)
(* the conversation records as they were.                                  *)
C21_DiscardUpdatesNothing ==
    [][\A m \in Handlers :
          (DiscardedByTransport(m) \/ DiscardedByRecord(m))
          => /\ msgs'[m] = Done
             /\ businessContacts' = businessContacts
             /\ conversationHistory' = conversationHistory]_vars

(* C21 as amended.  A message discarded on the transport's flag has        *)
(* nothing sent and no stored state created or changed.  A message         *)
(* discarded on a local record already marked business has nothing sent    *)
(* and no conversation record created or changed, and the record stays     *)
(* marked, but the message is scored first: a score of at least 20 is      *)
(* added to the record's detectionConfidence (capped at 100).              *)
C21_DiscardKeepsScoring ==
    [][\A m \in Handlers :
          LET c == msgs[m].contact
              score == ScoreOf[msgs[m].body]
              before == businessContacts[c].detectionConfidence
          IN /\ DiscardedByTransport(m)
                => /\ msgs'[m] = Done
                   /\ businessContacts' = businessContacts
                   /\ conversationHistory' = conversationHistory
             /\ DiscardedByRecord(m)
                => /\ msgs'[m] = Done
                   /\ conversationHistory' = conversationHistory
                   /\ businessContacts' =
                         [businessContacts EXCEPT ![c].detectionConfidence =
                             IF score >= BusinessThreshold
                             THEN Min(ConfidenceCap, before + score)
                             ELSE before]]_vars

\* a contact the transport does not flag was marked by one message and the
\* filter discarded its next message, raising the confidence to the cap
\* while no conversation record exists and nothing is in flight
C21_Witness ==
    \E c \in Contacts \ TransportBusiness :
        /\ StoredBusiness(businessContacts, c)
        /\ StoredConfidence(businessContacts, c) = ConfidenceCap
        /\ conversationHistory[c] = NoRecord
        /\ lastAIReplyTime[c] = 0
        /\ \A m \in Handlers : msgs[m] = Done

-----------------------------------------------------------------------------
\* the chat lookup of handler m rejects in this step
ChatLookupFails(m) == GetChat(m, FALSE) /\ ~GetChat(m, TRUE)

\* the contact lookup of handler m rejects in this step
ContactLookupFails(m) == GetContact(m, FALSE)

(* C22.  A failed chat lookup or contact lookup is treated as "unknown"    *)
(* and does not block the reply: after a failed chat lookup the handler    *)
(* goes on to the contact lookup as for a direct chat, and after a failed  *)
(* contact lookup it goes on exactly as for a contact the transport does   *)
(* not flag.                                                               *)
C22_LookupFailureTolerated ==
    [][\A m \in Handlers :
          /\ ChatLookupFails(m)
             => msgs'[m] = [msgs[m] EXCEPT !.pc = "getContact"]
          /\ ContactLookupFails(m)
             => LET d == Decide(msgs[m], m, conversationHistory, businessContacts)
                IN /\ msgs'[m] = d.handler
                   /\ conversationHistory' = d.conv
                   /\ businessContacts' = d.biz]_vars

-----------------------------------------------------------------------------
(* C23.  No failure of a collaborator (chat lookup, contact lookup, rule   *)
(* or AI reply send, completion call, alert send, scheduled send) escapes  *)
(* as an uncaught fault: no await of the message handler rejects with      *)
(* nobody to catch it, and no run of the dispatcher ends by a throw.       *)
C23_NoUncaughtFault ==
    /\ ~unhandledRejection
    /\ \A s \in 1..MaxScans : scans[s].pc # "crashed"

-----------------------------------------------------------------------------
(* C24.  When the completion call of a handler fails, the handler ends     *)
(* with no reply and no alert sent, the conversation record keeps the user *)
(* turn already appended, hasIntroduced and lastResponseTime (and every    *)
(* other stored field) stay as they were, and the call is not retried: the *)
(* ended handler never starts again.                                       *)
C24_FailedCallLeavesTurn ==
    [][\A m \in Handlers :
          /\ FetchFail(m)
             => /\ msgs' = [msgs EXCEPT ![m] = Done]
                /\ conversationHistory' = conversationHistory
                /\ businessContacts' = businessContacts
                /\ lastAIReplyTime' = lastAIReplyTime
          /\ msgs[m] = Done => msgs'[m] = Done]_vars

\* a contact's only message had its completion call fail: the record holds
\* the user turn alone, no introduction and no response time, and nothing
\* is in flight
C24_Witness ==
    \E c \in Contacts :
        /\ conversationHistory[c] # NoRecord
        /\ conversationHistory[c].messages = <<"user">>
        /\ conversationHistory[c].messageCount = 1
        /\ ~conversationHistory[c].hasIntroduced
        /\ conversationHistory[c].lastResponseTime = 0
        /\ lastAIReplyTime[c] = 0
        /\ \A m \in Handlers : ~Started(msgs[m])
        /\ \E m \in Handlers : msgs[m] = Done

-----------------------------------------------------------------------------
(* C25.  A completion call that does not finish is aborted by the hard     *)
(* timeout whichever stage stalls, waiting for the response status or      *)
(* reading the body: no call stays pending while more than the timeout     *)
(* passes.                                                                 *)
C25_StalledCallAborted ==
    [][\A m \in Handlers :
          (msgs[m].pc = "fetch" /\ msgs'[m].pc = "fetch")
          => now' - now <= FetchTimeoutMs]_vars

-----------------------------------------------------------------------------
(* C26.  For each inbound message at most one reply is sent to the sender, *)
(* on every path: when a handler's reply send (rule or AI) settles the     *)
(* handler ends, and a handler that has ended never does anything more.    *)
C26_AtMostOneReply ==
    [][\A m \in Handlers :
          /\ (Replying(msgs[m]) /\ Steps(m)) => msgs'[m].pc = "done"
          /\ msgs[m].pc = "done" => msgs'[m].pc = "done"]_vars

\* a message matching a rule is being answered by the rule while AI is
\* configured too, after an earlier message's handler has ended
C26_Witness ==
    \E m \in Handlers :
        /\ msgs[m].pc = "ruleReply"
        /\ AIConfigured(aiSettings)
        /\ posts = 0
        /\ \E k \in Handlers : msgs[k] = Done

-----------------------------------------------------------------------------
\* a keyword rule matches the message of handler m, whose contact lookup
\* settles in this step
RuleMatches(m) ==
    /\ \E ok \in BOOLEAN : GetContact(m, ok)
    /\ RuleOf[autoReplies][msgs[m].body] # 0

(* C27.  When a keyword rule matches a message, its handler neither        *)
(* creates nor changes a ConversationRecord: the conversation store is the *)
(* same after the step that finds the match and after the step in which    *)
(* the rule reply settles.                                                 *)
C27_RuleLeavesConversation ==
    [][\A m \in Handlers :
          (RuleMatches(m) \/ \E ok \in BOOLEAN : RuleReply(m, ok))
          => conversationHistory' = conversationHistory]_vars

\* a contact whose first message was answered by the AI has its next message
\* answered by a rule, and the record still counts one message and two turns
C27_Witness ==
    \E m \in Handlers :
        LET c == msgs[m].contact
        IN /\ msgs[m].pc = "ruleReply"
           /\ AIConfigured(aiSettings)
           /\ conversationHistory[c] # NoRecord
           /\ conversationHistory[c].messageCount = 1
           /\ conversationHistory[c].messages = <<"user", "assistant">>
           /\ conversationHistory[c].hasIntroduced

-----------------------------------------------------------------------------
\* AI is enabled and a non-empty credential is configured, as the settings
\* stand in this state
EnabledWithCredential == aiSettings.enabled /\ aiSettings.apiKey # ""

(* C28.  The completion service is called, and a ConversationRecord is     *)
(* created or changed, only for a message processed while AI is enabled    *)
(* and a non-empty credential is configured: a handler enters the call or  *)
(* writes the conversation store at its decision only under such settings, *)
(* every other write of the store is made by a handler already inside the  *)
(* call (or is the retention sweep), and with AI disabled or no credential *)
(* a message matching no rule ends with no reply and no change of the      *)
(* store.                                                                  *)
C28_AIOnlyWhenConfigured ==
    [][/\ \A m \in Handlers :
             (\E ok \in BOOLEAN : GetContact(m, ok))
             => /\ (msgs'[m].pc = "fetch" \/ conversationHistory' # conversationHistory)
                   => EnabledWithCredential
                /\ (~EnabledWithCredential /\ RuleOf[autoReplies][msgs[m].body] = 0)
                   => /\ msgs'[m] = Done
                      /\ conversationHistory' = conversationHistory
       /\ (conversationHistory' # conversationHistory /\ lastSweep' = lastSweep)
          => \E m \in Handlers :
                 /\ Steps(m)
                 /\ msgs[m].pc \in {"getContact", "fetch"}]_vars

\* AI is enabled but no credential was ever stored; a message matching no
\* rule went through the decision (its business record exists) and ended
\* with no conversation record and nothing in flight
C28_Witness ==
    \E c \in Contacts :
        /\ aiSettings.enabled
        /\ aiSettings.apiKey = ""
        /\ autoReplies = <<>>
        /\ businessContacts[c] = NewBusinessInfo
        /\ \A k \in Chats : conversationHistory[k] = NoRecord
        /\ \A m \in Handlers : ~Started(msgs[m])
        /\ \E m \in Handlers : msgs[m] = Done
        /\ ~unhandledRejection

-----------------------------------------------------------------------------
\* handler m enters generateAIResponse in this step and the rate check sends
\* it back at once
RateRejected(m) == Composes(m) /\ msgs'[m].pc = "done"

(* C30.  A message rejected by the rate check is not appended to the       *)
(* history, causes no completion call and no escalation alert, emergency   *)
(* keyword or not, and changes nothing in the ConversationRecord except    *)
(* messageCount, which grows by one; it is rejected only inside the        *)
(* debounce window of a record that counted an earlier message.            *)
C30_RejectedOnlyCounted ==
    [][\A m \in Handlers :
          LET c == msgs[m].contact
              stored == conversationHistory[c]
          IN RateRejected(m)
             => /\ stored # NoRecord
                /\ stored.messageCount >= 1
                /\ now - stored.lastResponseTime < DebounceMs
                /\ msgs' = [msgs EXCEPT ![m] = Done]
                /\ conversationHistory' =
                      [conversationHistory EXCEPT
                          ![c].messageCount = stored.messageCount + 1]]_vars

\* with an emergency contact configured, a contact's second message was
\* rejected right after the reply to its first: two messages counted, one
\* user turn and one assistant turn stored, both handlers ended
C30_Witness ==
    \E c \in Contacts :
        /\ conversationHistory[c] # NoRecord
        /\ conversationHistory[c].messageCount = 2
        /\ conversationHistory[c].messages = <<"user", "assistant">>
        /\ conversationHistory[c].lastResponseTime = now
        /\ aiSettings.emergencyNumber # ""
        /\ posts = 0
        /\ \A m \in Handlers : msgs[m] = Done
        /\ ~unhandledRejection

-----------------------------------------------------------------------------
\* entry `oid` is in the array, pending, and its datetime has passed, with
\* the transport connected
PendingAndDue(oid) ==
    /\ whatsappReady
    /\ \E k \in 1..Len(scheduledMessages) :
          /\ scheduledMessages[k].oid = oid
          /\ scheduledMessages[k].status = "pending"
          /\ scheduledMessages[k].datetime <= now

\* entry `oid` is no longer in the array, or is in it marked failed
RemovedOrFailed(oid) ==
    \A k \in 1..Len(scheduledMessages) :
        scheduledMessages[k].oid = oid => scheduledMessages[k].status = "failed"

(* C29.  While the transport stays connected and every send call returns,  *)
(* resolved or rejected, every pending entry whose datetime has passed is  *)
(* eventually either removed from the queue or marked failed.              *)
C29_DueEntryEventuallySettled ==
    \A oid \in 1..MaxOid : PendingAndDue(oid) ~> RemovedOrFailed(oid)

-----------------------------------------------------------------------------
\* the entries the array loses in this step
Leaving == Oids(scheduledMessages) \ Oids(scheduledMessages')

(* C31.  An entry leaves the scheduled queue through the dispatcher only   *)
(* after a send of that same entry succeeded, also when a second tick has  *)
(* started, or the queue was replaced through the scheduled-messages       *)
(* update, while the tick was suspended awaiting its send.                 *)
C31_RemovedOnlyAfterOwnSend ==
    [][\A s \in Scans :
          SendResolved(s) => \A o \in Leaving : o \in sentOk']_vars

-----------------------------------------------------------------------------
(* C32.  Each scheduled entry has at most one send attempt over its        *)
(* lifetime in the queue, even if a new dispatcher tick starts while an    *)
(* earlier tick is still awaiting the send of that entry.                  *)
C32_OneAttemptPerEntry ==
    \A o \in 1..MaxOid : attempts[o] <= 1

-----------------------------------------------------------------------------
(* C33.  Every assistant turn stored in a contact's history corresponds to *)
(* a reply that was delivered: when the send of a handler's AI reply       *)
(* fails, the history holds no assistant turn for it and lastResponseTime  *)
(* and hasIntroduced are not advanced; here for a record that the          *)
(* handler's message created and that has counted no other message.        *)
C33_NoTurnForFailedReply ==
    [][\A m \in Handlers :
          LET stored == conversationHistory'[msgs[m].contact]
          IN ( /\ AiReply(m, FALSE)
               /\ stored # NoRecord
               /\ stored.id = msgs[m].history
               /\ stored.messageCount = 1 )
             => /\ stored.messages = <<"user">>
                /\ ~stored.hasIntroduced
                /\ stored.lastResponseTime = 0]_vars

-----------------------------------------------------------------------------
\* handler m is in the escalation: looking up the contact's name or sending
\* the alert
Escalating(h) == h.pc \in {"contactName", "alertSend"}

(* C34.  Whenever an escalation alert is sent for an inbound message, the  *)
(* reply to the original sender has already been sent: a handler that is   *)
(* in the escalation does not begin the send of its reply afterwards.      *)
C34_ReplyBeforeAlert ==
    [][\A m \in Handlers :
          Escalating(msgs[m]) => msgs'[m].pc # "aiReply"]_vars

-----------------------------------------------------------------------------
(* C35.  No outbound send is attempted while whatsappReady is false, also  *)
(* not by a dispatcher tick that started while connected and was suspended *)
(* when the disconnect occurred: no call of sendMessage is begun in a      *)
(* state where whatsappReady is false.                                     *)
C35_NoSendWhileDisconnected ==
    [][~whatsappReady => attempts' = attempts]_vars

-----------------------------------------------------------------------------
(* C36.  The settings read never returns the stored API key: it yields the *)
(* mask '***hidden***' or the empty string.  Posting the settings back as  *)
(* read, or posting any settings with an empty key, leaves the stored key  *)
(* unchanged, and no step clears a key that is set.                        *)
C36_KeyMaskedAndKept ==
    [][/\ ReadSettings(aiSettings).apiKey \in {"***hidden***", ""}
       /\ aiSettings.apiKey # "" => ReadSettings(aiSettings).apiKey # aiSettings.apiKey
       /\ MergeSettings(aiSettings, ReadSettings(aiSettings)) = aiSettings
       /\ \A posted \in SettingsPosts :
             MergeSettings(aiSettings, [posted EXCEPT !.apiKey = ""]).apiKey
                 = aiSettings.apiKey
       /\ aiSettings.apiKey # "" => aiSettings'.apiKey # ""]_vars

\* settings posted with an empty key over a stored key: AI is now disabled,
\* the emergency number is gone and the key is still there
C36_Witness ==
    /\ posts = 1
    /\ aiSettings = Settings(FALSE, "sk-1", "")

\* C37: at most one reconnect, a pending 5-second timer or a running
\* client.initialize(), exists at any time, whatever the order of the
\* disconnected, auth_failure, ready and change_state events.  Two pending
\* timers are two reconnects, so the claim requires at most one timer.
C37_AtMostOneReconnect == reconnectTimers <= 1

\* C38: in every reachable state a stored business record has isBusiness
\* true exactly when its detectionConfidence is at least 20, and its
\* detectionConfidence lies within 0..100.
C38_FlagIffThreshold ==
    \A c \in Chats :
        businessContacts[c] # NoRecord
        => /\ businessContacts[c].isBusiness
              <=> businessContacts[c].detectionConfidence >= BusinessThreshold
           /\ businessContacts[c].detectionConfidence \in 0..ConfidenceCap

\* one contact's messages stayed below the threshold, another's did not
C38_Witness ==
    \E c, d \in Contacts :
        /\ businessContacts[c] # NoRecord
        /\ ~businessContacts[c].isBusiness
        /\ businessContacts[c].detectionConfidence = 0
        /\ businessContacts[d] # NoRecord
        /\ businessContacts[d].isBusiness
        /\ businessContacts[d].detectionConfidence < ConfidenceCap

====
